---- MODULE Spec2Model ----
(***************************************************************************)
(* Model of server.py: the per-room highlight state machine of the pyramid *)
(* puzzle server.  One handler task (ws_room) per websocket connection;    *)
(* every await and every lock boundary of the handler is a scheduling      *)
(* point, so each action below runs one handler from one such point to the *)
(* next.                                                                   *)
(***************************************************************************)
EXTENDS Integers, Sequences, FiniteSets, TLC

\* ---------------------------------------------------------------- bounds
NumWs == 2       \* websocket connections 1..NumWs
MaxMsgs == 2     \* inbound frames received over the whole run
MaxLayer == 1    \* circle ids offered by clients name layers 0..MaxLayer
MaxIndex == 1    \* ... and indices 0..MaxIndex
MaxCfg == 2      \* pyramid_config values offered: 0..MaxCfg
MaxDrops == 1    \* transports that go away over the whole run
MaxWarm == 2     \* inbound frames of a run that starts from a used room
MaxHl == 3       \* size of the highlight sets fed to the rule engine alone

\* ------------------------------------------------------ circle id strings
\* A circle id is a string; it is modelled as the sequence of its characters,
\* a digit d as the number d and '-' as Dash, so that the order of the numbers
\* is the order of the code points ('-' sorts before every digit).
Dash == -1

RECURSIVE Digits(_)
\* str(n) for n >= 0, as used by the f-strings f"{l}-{i}"
Digits(n) == IF n < 10 THEN <<n>> ELSE Digits(n \div 10) \o <<n % 10>>

\* f"{l}-{i}"
FormatId(l, i) == Digits(l) \o <<Dash>> \o Digits(i)

RECURSIVE SplitDash(_)
\* circle_id.split('-'): the parts between the dashes, empty parts included
SplitDash(s) ==
    IF \A k \in 1..Len(s) : s[k] # Dash THEN <<s>>
    ELSE LET k == CHOOSE j \in 1..Len(s) :
                     s[j] = Dash /\ \A m \in 1..(j - 1) : s[m] # Dash
         IN <<SubSeq(s, 1, k - 1)>> \o SplitDash(SubSeq(s, k + 1, Len(s)))

RECURSIVE IntOf(_)
\* int(part) of a non-empty string of digits; leading zeros are accepted
IntOf(t) == IF t = <<>> THEN 0 ELSE IntOf(SubSeq(t, 1, Len(t) - 1)) * 10 + t[Len(t)]

\* layer, index = map(int, circle_id.split('-')) succeeds: exactly two parts,
\* each a non-empty digit string (int('') raises ValueError)
ParseOk(cid) ==
    LET parts == SplitDash(cid)
    IN Len(parts) = 2 /\ parts[1] # <<>> /\ parts[2] # <<>>

\* the pair (layer, index) the unpacking yields
ParseId(cid) ==
    LET parts == SplitDash(cid) IN <<IntOf(parts[1]), IntOf(parts[2])>>

RECURSIVE StrLess(_, _)
\* Python's str < str: lexicographic by code point, a proper prefix first
StrLess(a, b) ==
    IF a = <<>> THEN b # <<>>
    ELSE IF b = <<>> THEN FALSE
    ELSE IF a[1] # b[1] THEN a[1] < b[1]
    ELSE StrLess(Tail(a), Tail(b))

RECURSIVE Sorted(_)
\* sorted(room.highlighted): the list of the set's strings in ascending order
Sorted(S) ==
    IF S = {} THEN <<>>
    ELSE LET m == CHOOSE x \in S : \A y \in S \ {x} : StrLess(x, y)
         IN <<m>> \o Sorted(S \ {m})

\* ------------------------------------------------------------ rule engine
\* a variant of connected_below whose layer below is one slot narrower
ConnectedBelowNarrow(bottom_size, layer, index) ==
    LET layer_below_size == bottom_size + (layer - 1) - 1
    IN (IF index > 0 /\ index - 1 < layer_below_size
        THEN << <<layer - 1, index - 1>> >> ELSE <<>>)
       \o
       (IF index < layer_below_size THEN << <<layer - 1, index>> >> ELSE <<>>)

\* connected_below of can_highlight_circle / can_highlight_circle_with_set
ConnectedBelow(bottom_size, layer, index) ==
    LET layer_below_size == bottom_size + (layer - 1)
    IN (IF index > 0 /\ index - 1 < layer_below_size
        THEN << <<layer - 1, index - 1>> >> ELSE <<>>)
       \o
       (IF index < layer_below_size THEN << <<layer - 1, index>> >> ELSE <<>>)

\* the ids of a list of (l, i) pairs: [f"{l}-{i}" for (l, i) in pairs]
IdsOf(pairs) == [k \in 1..Len(pairs) |-> FormatId(pairs[k][1], pairs[k][2])]

\* can_highlight_circle(room, layer, index) -> (bool, reason); the reason
\* string is modelled by its variable parts: which sentence, which ids
can_highlight_circle(room, layer, index) ==
    IF layer = 0 THEN [ok |-> TRUE, reason |-> <<"bottom layer", <<>> >>]
    ELSE LET below == IdsOf(ConnectedBelow(room.bottom_size, layer, index))
             connected_highlighted == SelectSeq(below, LAMBDA c : c \in room.highlighted)
         IN IF connected_highlighted # <<>>
            THEN [ok |-> TRUE, reason |-> <<"connected to highlighted", connected_highlighted>>]
            ELSE [ok |-> FALSE, reason |-> <<"no connected circles below", below>>]

\* can_highlight_circle_with_set(room, layer, index, highlighted_set) -> bool
can_highlight_circle_with_set(room, layer, index, highlighted_set) ==
    IF layer = 0 THEN TRUE
    ELSE LET below == IdsOf(ConnectedBelow(room.bottom_size, layer, index))
         IN \E k \in 1..Len(below) : below[k] \in highlighted_set

\* a check that finds no circle depending on any other
has_dependent_circles_none(room, layer, index) == {}

\* has_dependent_circles(room, layer, index) -> the list `dependent`; its order
\* is the iteration order of the set, so it is modelled as a set
has_dependent_circles(room, layer, index) ==
    LET temp_highlighted == room.highlighted \ {FormatId(layer, index)}
    IN {h \in room.highlighted :
            \E p \in {ParseId(h)} :        \* h_layer, h_index = map(int, ...)
                /\ p[1] > layer
                /\ ~can_highlight_circle_with_set(room, p[1], p[2], temp_highlighted)}

\* ------------------------------------------------------------------ state
Ws == 1..NumWs
RoomIds == {"r1", "r2"}

\* the room_id of the path /ws/{room_id} a connection can be opened on
RoomChoices(w) == IF w = 1 THEN {"r1"} ELSE RoomIds

\* what get_session(ws.cookies.get("session_id")) can return for connection w:
\* the role of its session record, or "none" (no cookie, or no such session)
SessionChoices(w) == IF w = 1 THEN {"dm"} ELSE {"player", "none"}

\* Room(): the dataclass defaults
DefaultLayers == 5
DefaultBottomSize == 1
NewRoom == [highlighted |-> {}, clients |-> {}, lock |-> 0,
            layers |-> DefaultLayers, bottom_size |-> DefaultBottomSize]

VARIABLES
    rooms,      \* the rooms dict: room id -> Room, for the rooms created so far
    pc,         \* pc[w]: the await or lock boundary handler w is suspended at
    room_id,    \* room_id[w]: the room of the path connection w was opened on
    session,    \* session[w]: the role found at the lookup ("none" before it)
    alive,      \* alive[w]: connection w's transport: "open", "dropped" (the
                \* client went away) or "closed" (the server closed it)
    loc,        \* loc[w]: the handler's local variables
    inbox,      \* inbox[w]: the messages written to connection w, in order
    nmsg,       \* nmsg[w]: inbound frames connection w has received so far
    left,       \* inbound frames the run may still receive
    dec,        \* dec[w]: history of w's last toggle: the set before and after,
                \* the room's count of applied operations before and after
    hist,       \* hist[r]: history of room r: operations applied, last config,
                \* the highlight set the applied operations add up to
    fin, fout   \* input and result of the rule engine run on its own

vars == <<rooms, pc, room_id, session, alive, loc, inbox, nmsg, left, dec, hist, fin, fout>>

NoOp == <<0, 0>>
NoFrame == [kind |-> "none", circleId |-> <<>>, layers |-> 0, bottomSize |-> 0, op |-> NoOp]
NoOut == [type |-> "none", op |-> NoOp]
NoLoc == [msg |-> NoFrame, is_highlighted |-> FALSE,
          out |-> NoOut, snapshot |-> {}, pending |-> {}, dead |-> {}]
NoReason == [kind |-> "none", text |-> "", ids |-> <<>>, deps |-> {}]
NoDec == [circleId |-> <<>>, op |-> NoOp, applied |-> FALSE, done |-> FALSE,
          pre |-> {}, post |-> {}, shape |-> <<0, 0>>, epoch |-> 0, after |-> 0,
          racing |-> {}, reason |-> NoReason]
NoHist == [applied |-> 0, by |-> 0, layers |-> 0, bottomSize |-> 0, at |-> 0,
           set |-> {}]
Idle == [fn |-> "none"]

\* ----------------------------------------------------------- inbound frames
\* a value json.loads can yield for layers / bottomSize that is not an int
NotInt == -7
\* the (layers, bottomSize) pairs offered: every valid shape up to MaxCfg,
\* and one pair for each way a value fails the validation
Configs == ((1..MaxCfg) \X (1..MaxCfg))
           \cup {<<0, 1>>, <<NotInt, 1>>, <<1, 0>>, <<1, NotInt>>}

\* ids clients offer: canonical "l-i", and bottom-layer ids with the index
\* written with a leading zero ("0-00"), which int() reads as the same number
CanonicalIds == {FormatId(l, i) : l \in 0..MaxLayer, i \in 0..MaxIndex}
PaddedIds == {<<0, Dash, 0>> \o Digits(i) : i \in 0..(MaxIndex - 1)}
CircleIds == CanonicalIds \cup PaddedIds
\* strings the unpacking rejects: "0" (one part), "0--1" (three parts, one empty)
BadIds == {<<0>>, <<0, Dash, Dash, 1>>}

Frame(k) == [NoFrame EXCEPT !.kind = k]
Frames ==
    {Frame(k) : k \in {"bad_json", "non_object", "no_type", "toggle_no_id",
                       "state_request", "ping", "unknown"}}
    \cup {[Frame("circle_toggle") EXCEPT !.circleId = c] : c \in CircleIds \cup BadIds}
    \cup {[Frame("pyramid_config") EXCEPT !.layers = c[1], !.bottomSize = c[2]] :
              c \in Configs}

\* ---------------------------------------------------------------- messages
ErrorMsg(text, op) == [type |-> "error", message |-> text, op |-> op]

\* a snapshot that carries the state of a room just created
StateSyncOfNewRoom(room, op) ==
    [type |-> "state_sync", highlighted |-> <<>>,
     layers |-> DefaultLayers, bottomSize |-> DefaultBottomSize, op |-> op,
     locked |-> room.lock # 0]

\* the state_sync dict: sorted(room.highlighted), room.layers, room.bottom_size
\* (locked is history: whether somebody held the lock when the room was read)
StateSync(room, op) ==
    [type |-> "state_sync", highlighted |-> Sorted(room.highlighted),
     layers |-> room.layers, bottomSize |-> room.bottom_size, op |-> op,
     locked |-> room.lock # 0]

\* safe_send(ws, message): True and the message written when the transport
\* is open, False (the exception swallowed) when it is not
SendOk(c) == alive[c] = "open"
Delivered(box, c, m) == IF SendOk(c) THEN [box EXCEPT ![c] = Append(@, m)] ELSE box

\* a lock that never makes anybody wait
LockNeverHeld(room) == TRUE

\* asyncio.Lock: free when nobody holds it
LockFree(room) == room.lock = 0

Init ==
    /\ rooms = <<>>
    /\ pc = [w \in Ws |-> "connecting"]
    /\ room_id \in [Ws -> RoomIds]
    /\ \A w \in Ws : room_id[w] \in RoomChoices(w)
    /\ session = [w \in Ws |-> "none"]
    /\ alive = [w \in Ws |-> "open"]
    /\ loc = [w \in Ws |-> NoLoc]
    /\ inbox = [w \in Ws |-> <<>>]
    /\ nmsg = [w \in Ws |-> 0]
    /\ left = MaxMsgs
    /\ dec = [w \in Ws |-> NoDec]
    /\ hist = [r \in RoomIds |-> NoHist]
    /\ fin = Idle
    /\ fout = Idle

\* a lookup that makes a Room at every call
get_room_makes_new(rid) ==
    [r \in DOMAIN rooms \cup {rid} |-> IF r = rid THEN NewRoom ELSE rooms[r]]

\* get_room(room_id): the rooms dict after the lookup
get_room(rid) ==
    IF rid \in DOMAIN rooms THEN rooms ELSE rooms @@ (rid :> NewRoom)

\* a lookup that takes every connection for an authenticated one
UnauthenticatedNever(s) == FALSE

\* `if not session`: the cookie is missing or names no session
Unauthenticated(s) == s = "none"

\* ws_room up to the message loop: accept, authenticate, register, initial sync
Accept(w) ==
    /\ pc[w] = "connecting"
    /\ UNCHANGED <<room_id, loc, nmsg, left, dec, hist, fin, fout>>
    /\ IF alive[w] # "open"
       THEN \* ws.accept() raises: the setup's except returns
            /\ pc' = [pc EXCEPT ![w] = "closed"]
            /\ UNCHANGED <<rooms, session, alive, inbox>>
       ELSE \E s \in SessionChoices(w) :
            /\ session' = [session EXCEPT ![w] = s]
            /\ IF Unauthenticated(s)
               THEN \* error, ws.close(), return: never registered
                    /\ inbox' = Delivered(inbox, w, ErrorMsg("Not authenticated", NoOp))
                    /\ alive' = [alive EXCEPT ![w] = "closed"]
                    /\ pc' = [pc EXCEPT ![w] = "closed"]
                    /\ UNCHANGED rooms
               ELSE LET r == room_id[w]
                        reg == [get_room(r) EXCEPT ![r].clients = @ \cup {w}]
                    IN /\ rooms' = reg
                       /\ inbox' = Delivered(inbox, w, StateSync(reg[r], NoOp))
                       /\ pc' = [pc EXCEPT ![w] = "recv"]
                       /\ UNCHANGED alive

\* the client's end of the connection goes away
Disconnect(w) ==
    /\ alive[w] = "open"
    /\ pc[w] # "closed"
    /\ Cardinality({v \in Ws : alive[v] = "dropped"}) < MaxDrops
    /\ alive' = [alive EXCEPT ![w] = "dropped"]
    /\ UNCHANGED <<rooms, pc, room_id, session, loc, inbox, nmsg, left, dec, hist, fin, fout>>

\* the finally of the message loop: room.clients.discard(ws)
Closed(w) ==
    /\ rooms' = [rooms EXCEPT ![room_id[w]].clients = @ \ {w}]
    /\ pc' = [pc EXCEPT ![w] = "closed"]
    /\ loc' = [loc EXCEPT ![w] = NoLoc]

\* receive_text() raises WebSocketDisconnect
RecvDisconnect(w) ==
    /\ pc[w] = "recv"
    /\ alive[w] # "open"
    /\ Closed(w)
    /\ UNCHANGED <<room_id, session, alive, inbox, nmsg, left, dec, hist, fin, fout>>

\* ------------------------------------------------------------ message loop
\* a role check that lets every authenticated session through
RoleIsAny(role) == TRUE

\* session.get("role") != "dm", negated: the sender may configure the pyramid
RoleIsDm(role) == role = "dm"

\* the private reply to frame m of connection w, by the branch the loop takes;
\* "none" for the branches that send nothing while the frame is being decoded
ReplyTo(w, m) ==
    LET room == rooms[room_id[w]] IN
    CASE m.kind = "bad_json" -> ErrorMsg("Invalid JSON", m.op)
      [] m.kind = "no_type" -> ErrorMsg("Missing or invalid 'type'", m.op)
      [] m.kind = "toggle_no_id" -> ErrorMsg("circleId must be a string", m.op)
      [] m.kind = "circle_toggle" /\ ~ParseOk(m.circleId) ->
            ErrorMsg("Invalid circleId format", m.op)
      [] m.kind = "pyramid_config" /\ ~RoleIsDm(session[w]) ->
            ErrorMsg("Only DM can configure pyramid", m.op)
      [] m.kind = "pyramid_config" /\ RoleIsDm(session[w])
            /\ (m.layers = NotInt \/ m.layers < 1) ->
            ErrorMsg("layers must be a positive integer", m.op)
      [] m.kind = "pyramid_config" /\ RoleIsDm(session[w])
            /\ ~(m.layers = NotInt \/ m.layers < 1)
            /\ (m.bottomSize = NotInt \/ m.bottomSize < 1) ->
            ErrorMsg("bottomSize must be a positive integer", m.op)
      [] m.kind = "state_request" -> StateSync(room, m.op)
      [] m.kind = "ping" -> [type |-> "pong", op |-> m.op]
      [] m.kind = "unknown" -> ErrorMsg("Unknown type", m.op)
      [] OTHER -> NoOut

\* receive_text() returns a frame: decode it and take the branch up to the
\* reply (then back to receive_text) or up to the lock
Receive(w, f) ==
    /\ pc[w] = "recv"
    /\ alive[w] = "open"
    /\ left > 0
    /\ left' = left - 1
    /\ nmsg' = [nmsg EXCEPT ![w] = @ + 1]
    /\ UNCHANGED <<room_id, session, alive, dec, hist, fin, fout>>
    /\ LET m == [f EXCEPT !.op = <<w, nmsg[w] + 1>>]
           reply == ReplyTo(w, m)
       IN IF m.kind = "non_object"
          THEN \* msg.get raises AttributeError: except Exception, then finally
               /\ Closed(w)
               /\ UNCHANGED inbox
          ELSE IF reply.type # "none"
          THEN /\ inbox' = Delivered(inbox, w, reply)
               /\ UNCHANGED <<rooms, pc, loc>>
          ELSE /\ pc' = [pc EXCEPT ![w] =
                            IF m.kind = "circle_toggle" THEN "t_lock" ELSE "c_lock"]
               /\ loc' = [loc EXCEPT ![w].msg = m]
               /\ UNCHANGED <<rooms, inbox>>

RejectMsg(cid, reason, op) ==
    [type |-> "toggle_rejected", circleId |-> cid, reason |-> reason, op |-> op]

\* the decision of the toggle branch on the room as it is: what to do with
\* circle_id, and the reason sent when it is rejected
Decide(room, circle_id, layer, index) ==
    IF circle_id \in room.highlighted
    THEN LET dependent_circles == has_dependent_circles(room, layer, index)
         IN [ok |-> dependent_circles = {}, is_highlighted |-> FALSE,
             reason |-> [kind |-> "Cannot deselect",
                         text |-> "circles above depend on it",
                         ids |-> <<>>, deps |-> dependent_circles]]
    ELSE LET res == can_highlight_circle(room, layer, index)
         IN [ok |-> res.ok, is_highlighted |-> TRUE,
             reason |-> [kind |-> "Cannot select", text |-> res.reason[1],
                         ids |-> res.reason[2], deps |-> {}]]

\* async with room.lock, then the membership test and the rule engine; a
\* rejection is sent from inside the lock
ToggleDecide(w) ==
    /\ pc[w] = "t_lock"
    /\ LET r == room_id[w]
           room == rooms[r]
           m == loc[w].msg
       IN /\ LockFree(room)
          /\ \E p \in {ParseId(m.circleId)} :      \* layer, index = map(int, ...)
             \E d \in {Decide(room, m.circleId, p[1], p[2])} :
             /\ rooms' = [rooms EXCEPT ![r].lock = w]
             /\ dec' = [dec EXCEPT ![w] =
                   [circleId |-> m.circleId, op |-> m.op, applied |-> d.ok,
                    done |-> ~d.ok, pre |-> room.highlighted, post |-> room.highlighted,
                    shape |-> <<room.layers, room.bottom_size>>,
                    epoch |-> hist[r].applied, after |-> hist[r].applied,
                    racing |-> {loc[v].msg.op : v \in {x \in Ws \ {w} :
                                   room_id[x] = r /\ pc[x] = "t_lock"
                                   /\ loc[x].msg.circleId = m.circleId}},
                    reason |-> d.reason]]
             /\ IF d.ok
                THEN /\ pc' = [pc EXCEPT ![w] = "t_write"]
                     /\ loc' = [loc EXCEPT ![w].is_highlighted = d.is_highlighted]
                     /\ UNCHANGED inbox
                ELSE /\ pc' = [pc EXCEPT ![w] = "t_rej"]
                     /\ inbox' = Delivered(inbox, w, RejectMsg(m.circleId, d.reason, m.op))
                     /\ UNCHANGED loc
    /\ UNCHANGED <<room_id, session, alive, nmsg, left, hist, fin, fout>>

\* a rejection that has already taken the circle out of the set
ToggleRejectedPartial(w) ==
    /\ pc[w] = "t_rej"
    /\ rooms' = [rooms EXCEPT ![room_id[w]].lock = 0,
                              ![room_id[w]].highlighted = @ \ {loc[w].msg.circleId}]
    /\ pc' = [pc EXCEPT ![w] = "recv"]
    /\ loc' = [loc EXCEPT ![w] = NoLoc]
    /\ UNCHANGED <<room_id, session, alive, inbox, nmsg, left, dec, hist, fin, fout>>

\* a rejection whose `continue` leaves the loop's turn with the lock held
ToggleRejectedKeepsLock(w) ==
    /\ pc[w] = "t_rej"
    /\ pc' = [pc EXCEPT ![w] = "recv"]
    /\ loc' = [loc EXCEPT ![w] = NoLoc]
    /\ UNCHANGED <<rooms, room_id, session, alive, inbox, nmsg, left, dec, hist, fin, fout>>

\* the rejection's send returns: `continue` leaves the lock
ToggleRejected(w) ==
    /\ pc[w] = "t_rej"
    /\ rooms' = [rooms EXCEPT ![room_id[w]].lock = 0]
    /\ pc' = [pc EXCEPT ![w] = "recv"]
    /\ loc' = [loc EXCEPT ![w] = NoLoc]
    /\ UNCHANGED <<room_id, session, alive, inbox, nmsg, left, dec, hist, fin, fout>>

\* broadcast(room, message) up to its loop: list(room.clients)
StartBroadcast(l, room, message) ==
    [l EXCEPT !.out = message, !.snapshot = room.clients,
              !.pending = room.clients, !.dead = {}]

\* a fan-out that a failed send brings to an end
BroadcastTurnAborts(w, l) ==
    \E c \in l.pending :
        /\ inbox' = Delivered(inbox, c, l.out)
        /\ loc' = [loc EXCEPT ![w] =
                      [l EXCEPT !.pending = IF SendOk(c) THEN @ \ {c} ELSE {},
                                !.dead = IF SendOk(c) THEN @ ELSE @ \cup {c}]]

\* one turn of broadcast's loop for handler w with locals l: safe_send to the
\* next client of the list (in the list's order, which is any order).  Whether
\* send_text suspends before or after it writes the frame is the server's flow
\* control, so each send is a step of its own
BroadcastTurn(w, l) ==
    \E c \in l.pending :
        /\ inbox' = Delivered(inbox, c, l.out)
        /\ loc' = [loc EXCEPT ![w] =
                      [l EXCEPT !.pending = @ \ {c},
                                !.dead = IF SendOk(c) THEN @ ELSE @ \cup {c}]]

\* room.highlighted.remove / add, leaving the lock, and the broadcast up to
\* its first send
ToggleWrite(w) ==
    /\ pc[w] = "t_write"
    /\ LET r == room_id[w]
           m == loc[w].msg
           hl == IF loc[w].is_highlighted
                 THEN rooms[r].highlighted \cup {m.circleId}
                 ELSE rooms[r].highlighted \ {m.circleId}
       IN /\ rooms' = [rooms EXCEPT ![r].highlighted = hl, ![r].lock = 0]
          /\ loc' = [loc EXCEPT ![w] = StartBroadcast(@, rooms[r],
                        [type |-> "circle_toggled", circleId |-> m.circleId,
                         isHighlighted |-> loc[w].is_highlighted, op |-> m.op])]
          /\ dec' = [dec EXCEPT ![w].post = hl, ![w].done = TRUE,
                                ![w].after = hist[r].applied + 1]
          /\ hist' = [hist EXCEPT ![r].applied = @ + 1, ![r].set = hl]
    /\ pc' = [pc EXCEPT ![w] = "bcast"]
    /\ UNCHANGED <<room_id, session, alive, inbox, nmsg, left, fin, fout>>

\* a reconfiguration that keeps the highlights
ReconfiguredKeeps(room, layers, bottom_size) ==
    [room EXCEPT !.layers = layers, !.bottom_size = bottom_size]

\* room.layers = layers; room.bottom_size = bottom_size; room.highlighted.clear()
Reconfigured(room, layers, bottom_size) ==
    [room EXCEPT !.layers = layers, !.bottom_size = bottom_size, !.highlighted = {}]

\* the pyramid_config branch of a DM with valid values: the three writes
\* under the lock, and the broadcast up to its first send
ConfigApply(w) ==
    /\ pc[w] = "c_lock"
    /\ LET r == room_id[w]
           m == loc[w].msg
       IN /\ LockFree(rooms[r])
          /\ rooms' = [rooms EXCEPT ![r] = Reconfigured(@, m.layers, m.bottomSize)]
          /\ loc' = [loc EXCEPT ![w] = StartBroadcast(@, rooms[r],
                        [type |-> "config_sync", layers |-> m.layers,
                         bottomSize |-> m.bottomSize, op |-> m.op])]
          /\ hist' = [hist EXCEPT ![r] =
                        [applied |-> @.applied + 1, by |-> w, layers |-> m.layers,
                         bottomSize |-> m.bottomSize, at |-> @.applied + 1,
                         set |-> {}]]
    /\ pc' = [pc EXCEPT ![w] = "bcast"]
    /\ UNCHANGED <<room_id, session, alive, inbox, nmsg, left, dec, fin, fout>>

\* the broadcast's next send
BroadcastSend(w) ==
    /\ pc[w] = "bcast"
    /\ loc[w].pending # {}
    /\ BroadcastTurn(w, loc[w])
    /\ UNCHANGED <<rooms, pc, room_id, session, alive, nmsg, left, dec, hist, fin, fout>>

\* a broadcast that returns without pruning
BroadcastEndKeeps(w) ==
    /\ pc[w] = "bcast"
    /\ loc[w].pending = {}
    /\ pc' = [pc EXCEPT ![w] = "recv"]
    /\ loc' = [loc EXCEPT ![w] = NoLoc]
    /\ UNCHANGED <<rooms, room_id, session, alive, inbox, nmsg, left, dec, hist, fin, fout>>

\* the last send returns (or there was none): prune the dead sockets, back
\* to receive_text
BroadcastEnd(w) ==
    /\ pc[w] = "bcast"
    /\ loc[w].pending = {}
    /\ rooms' = [rooms EXCEPT ![room_id[w]].clients = @ \ loc[w].dead]
    /\ pc' = [pc EXCEPT ![w] = "recv"]
    /\ loc' = [loc EXCEPT ![w] = NoLoc]
    /\ UNCHANGED <<room_id, session, alive, inbox, nmsg, left, dec, hist, fin, fout>>

Next ==
    \/ \E w \in Ws : Accept(w)
    \/ \E w \in Ws : Disconnect(w)
    \/ \E w \in Ws : RecvDisconnect(w)
    \/ \E w \in Ws, f \in Frames : Receive(w, f)
    \/ \E w \in Ws : ToggleDecide(w)
    \/ \E w \in Ws : ToggleRejected(w)
    \/ \E w \in Ws : ToggleWrite(w)
    \/ \E w \in Ws : ConfigApply(w)
    \/ \E w \in Ws : BroadcastSend(w)
    \/ \E w \in Ws : BroadcastEnd(w)

Spec == Init /\ [][Next]_vars

\* The event loop runs every task that is ready: a handler past an await whose
\* result is there goes on (a send returns when the frame is written or the
\* transport has failed, and a handler is not cancelled when its client goes
\* away), and a waiter gets a lock that stays free (asyncio.Lock wakes its
\* waiters in the order they came).  Clients need not connect, send frames or
\* disconnect.
Fairness ==
    \A w \in Ws :
        /\ WF_vars(ToggleDecide(w))
        /\ WF_vars(ConfigApply(w))
        /\ WF_vars(ToggleRejected(w))
        /\ WF_vars(ToggleWrite(w))
        /\ WF_vars(BroadcastSend(w))
        /\ WF_vars(BroadcastEnd(w))
        /\ WF_vars(RecvDisconnect(w))

SpecFair == Spec /\ Fairness

\* ------------------------------------------- a run that starts from a used room
\* A room outlives its connections (rooms is never pruned): earlier connections
\* may have configured it and toggled circles before they all left.  Every
\* member above the bottom layer was selectable when it was added.
Supported(room) ==
    \A h \in room.highlighted :
        can_highlight_circle_with_set(room, ParseId(h)[1], ParseId(h)[2], room.highlighted)

WarmRooms ==
    { [NewRoom EXCEPT !.highlighted = {FormatId(0, 0), FormatId(1, 0)}],
      [NewRoom EXCEPT !.highlighted = {FormatId(0, 0), <<0, Dash, 0, 0>>, FormatId(1, 0)}],
      [NewRoom EXCEPT !.layers = 2, !.bottom_size = 2,
                      !.highlighted = {FormatId(0, 0), FormatId(0, 1), FormatId(1, 1)}] }

InitWarm ==
    /\ \E room \in WarmRooms :
          /\ Supported(room)
          /\ rooms = ("r1" :> room)
          /\ hist = [r \in RoomIds |->
                       IF r = "r1" THEN [NoHist EXCEPT !.set = room.highlighted]
                       ELSE NoHist]
    /\ pc = [w \in Ws |-> "connecting"]
    /\ room_id \in [Ws -> RoomIds]
    /\ \A w \in Ws : room_id[w] \in RoomChoices(w)
    /\ session = [w \in Ws |-> "none"]
    /\ alive = [w \in Ws |-> "open"]
    /\ loc = [w \in Ws |-> NoLoc]
    /\ inbox = [w \in Ws |-> <<>>]
    /\ nmsg = [w \in Ws |-> 0]
    /\ left = MaxWarm
    /\ dec = [w \in Ws |-> NoDec]
    /\ fin = Idle
    /\ fout = Idle

SpecWarm == InitWarm /\ [][Next]_vars

\* ------------------------------------------------ the rule engine on its own
RECURSIVE SubsetsUpTo(_, _)
\* the subsets of S with at most k members
SubsetsUpTo(S, k) ==
    IF k = 0 THEN {{}}
    ELSE LET P == SubsetsUpTo(S, k - 1) IN P \cup {p \cup {x} : p \in P, x \in S}

RuleRooms ==
    {[NewRoom EXCEPT !.layers = l, !.bottom_size = b, !.highlighted = H] :
        l \in (1..MaxCfg) \cup {DefaultLayers}, b \in 1..MaxCfg,
        H \in SubsetsUpTo(CircleIds, MaxHl)}

RuleInputs ==
    {[fn |-> "can_highlight_circle", room |-> room, layer |-> l, index |-> i,
      circle_id |-> FormatId(l, i)] :
        room \in RuleRooms, l \in 0..(MaxLayer + 1), i \in 0..(MaxIndex + 1)}
    \cup
    {[fn |-> "has_dependent_circles", room |-> room, layer |-> ParseId(c)[1],
      index |-> ParseId(c)[2], circle_id |-> c] :
        room \in {x \in RuleRooms : Supported(x)}, c \in CircleIds}

InitRules ==
    /\ fin \in RuleInputs
    /\ fin.fn = "has_dependent_circles" => fin.circle_id \in fin.room.highlighted
    /\ fout = Idle
    /\ rooms = <<>>
    /\ pc = [w \in Ws |-> "connecting"]
    /\ room_id = [w \in Ws |-> "r1"]
    /\ session = [w \in Ws |-> "none"]
    /\ alive = [w \in Ws |-> "open"]
    /\ loc = [w \in Ws |-> NoLoc]
    /\ inbox = [w \in Ws |-> <<>>]
    /\ nmsg = [w \in Ws |-> 0]
    /\ left = 0
    /\ dec = [w \in Ws |-> NoDec]
    /\ hist = [r \in RoomIds |-> NoHist]

\* can_highlight_circle called on the input
RunCanHighlight ==
    /\ fin.fn = "can_highlight_circle"
    /\ fout = Idle
    /\ fout' = [fn |-> fin.fn,
                ok |-> can_highlight_circle(fin.room, fin.layer, fin.index).ok,
                dependent |-> {}]
    /\ UNCHANGED <<rooms, pc, room_id, session, alive, loc, inbox, nmsg, left, dec, hist, fin>>

\* the deselect branch's call: has_dependent_circles on the parsed circle id
RunHasDependent ==
    /\ fin.fn = "has_dependent_circles"
    /\ fout = Idle
    /\ LET dependent == has_dependent_circles(fin.room, fin.layer, fin.index)
       IN fout' = [fn |-> fin.fn, ok |-> dependent = {}, dependent |-> dependent]
    /\ UNCHANGED <<rooms, pc, room_id, session, alive, loc, inbox, nmsg, left, dec, hist, fin>>

NextRules == RunCanHighlight \/ RunHasDependent

SpecRules == InitRules /\ [][NextRules]_vars

\* ====================================================================== claims
\* the two cells a cell (layer, index) can rest on
BelowOf(layer, index) == {<<layer - 1, index - 1>>, <<layer - 1, index>>}

\* the valid indices of layer L as the data model words them:
\* 0 .. (bottomSize + L - 1) - 1
DataModelValid(bottomSize, L, i) == 0 <= i /\ i <= (bottomSize + L - 1) - 1

\* the valid indices of layer L when layer 0 is bottomSize wide and each
\* layer above has one slot more: 0 .. (bottomSize + L) - 1
ShapeValid(bottomSize, L, i) == 0 <= i /\ i <= (bottomSize + L) - 1

\* C5 as worded: canSelect is true for layer 0, and above it exactly when one
\* of the adjacency-below cells, counted when its index is in the data model's
\* range of the layer below, is in the highlight set
C5_AsClaimed ==
    (fout.fn = "can_highlight_circle" /\ Supported(fin.room)) =>
        (fout.ok <=>
            \/ fin.layer = 0
            \/ \E p \in BelowOf(fin.layer, fin.index) :
                  /\ DataModelValid(fin.room.bottom_size, p[1], p[2])
                  /\ FormatId(p[1], p[2]) \in fin.room.highlighted)

\* C5, amended: the same with the range 0 .. bottomSize + L - 1 for layer L,
\* a cell being in the set when its canonical id "<layer>-<index>" is a member
C5_CanSelect ==
    fout.fn = "can_highlight_circle" =>
        (fout.ok <=>
            \/ fin.layer = 0
            \/ \E p \in BelowOf(fin.layer, fin.index) :
                  /\ ShapeValid(fin.room.bottom_size, p[1], p[2])
                  /\ FormatId(p[1], p[2]) \in fin.room.highlighted)

\* C5's case: a cell above the bottom whose only support is the last cell of
\* the layer below, which the data model's range leaves out
C5_Witness ==
    /\ fout.fn = "can_highlight_circle"
    /\ fout.ok
    /\ fin.layer = 1 /\ fin.index = 0 /\ fin.room.bottom_size = 1
    /\ FormatId(0, 0) \in fin.room.highlighted

\* C6 as worded: a deselect of the highlighted id c is rejected exactly when
\* the blocker list is non-empty, and the list reported is exactly the
\* highlighted cells above c with no support left in the set without c
C6_AsClaimed ==
    fout.fn = "has_dependent_circles" =>
        LET c == fin.circle_id
            reduced == fin.room.highlighted \ {c}
            blockers ==
                {h \in fin.room.highlighted :
                    /\ ParseId(h)[1] > ParseId(c)[1]
                    /\ ~\E p \in BelowOf(ParseId(h)[1], ParseId(h)[2]) :
                          /\ ShapeValid(fin.room.bottom_size, p[1], p[2])
                          /\ FormatId(p[1], p[2]) \in reduced}
        IN /\ fout.ok <=> blockers = {}
           /\ fout.dependent = blockers

\* ------------------------------------------------------------------- C1
\* the handlers of room r that are inside a toggle's critical section
InCritical(r) == {w \in Ws : room_id[w] = r /\ pc[w] \in {"t_write", "t_rej"}}

\* the set after one toggle of c applied to S
Flip(S, c) == IF c \in S THEN S \ {c} ELSE S \cup {c}

\* C1: toggles and reconfigurations of a room are linearized by its lock: at
\* most one handler is between its decision and its write, it holds the lock,
\* the room is still exactly what it decided on (no other toggle or
\* reconfiguration came in between), and each applied toggle leaves the set it
\* decided on with that one cell flipped
C1_Linearized ==
    /\ \A r \in DOMAIN rooms :
          /\ Cardinality(InCritical(r)) <= 1
          /\ \A w \in InCritical(r) :
                /\ rooms[r].lock = w
                /\ rooms[r].highlighted = dec[w].pre
                /\ <<rooms[r].layers, rooms[r].bottom_size>> = dec[w].shape
                /\ dec[w].epoch = hist[r].applied
    /\ \A w \in Ws :
          (dec[w].done /\ dec[w].applied) =>
              dec[w].post = Flip(dec[w].pre, dec[w].circleId)

\* C1's case: one handler has decided and not yet written while the other
\* handler of the room waits for the lock
C1_Witness ==
    \E w, v \in Ws :
        /\ room_id[w] = room_id[v]
        /\ pc[w] = "t_write"
        /\ pc[v] \in {"t_lock", "c_lock"}

\* ------------------------------------------------------------------- C2
NumApplied(a, b) ==
    (IF dec[a].applied THEN 1 ELSE 0) + (IF dec[b].applied THEN 1 ELSE 0)

\* two toggles of the same circle, both done, b's frame waiting for the lock
\* when a took it, and no operation but these two applied to the room from
\* a's decision to the end of b's toggle
Raced(a, b) ==
    /\ a # b
    /\ room_id[a] = room_id[b]
    /\ dec[a].done /\ dec[b].done
    /\ dec[b].op \in dec[a].racing
    /\ dec[b].circleId = dec[a].circleId
    /\ dec[b].epoch >= dec[a].epoch
    /\ dec[b].after = dec[a].epoch + NumApplied(a, b)

\* C2 as worded: of two concurrent toggles of one cell exactly one is Applied
\* and the set ends one flip of that cell away from the starting set
C2_AsClaimed ==
    \A a, b \in Ws :
        Raced(a, b) =>
            /\ NumApplied(a, b) = 1
            /\ dec[b].post = Flip(dec[a].pre, dec[a].circleId)

\* C2, amended: the second toggle is decided on the set the first one left,
\* and the set ends as the starting set with the cell flipped once for each
\* toggle that was Applied (both Applied: back to the starting set)
C2_Serialized ==
    \A a, b \in Ws :
        Raced(a, b) =>
            /\ dec[b].pre = dec[a].post
            /\ dec[b].shape = dec[a].shape
            /\ dec[b].post =
                  (CASE NumApplied(a, b) = 1 -> Flip(dec[a].pre, dec[a].circleId)
                     [] OTHER -> dec[a].pre)

\* C2's case: both toggles of the race were Applied
C2_Witness ==
    \E a, b \in Ws : Raced(a, b) /\ NumApplied(a, b) = 2

\* ------------------------------------------------------------------- C3
Range(q) == {q[k] : k \in 1..Len(q)}

RECURSIVE ViewAfter(_, _)
\* what a client makes of the messages it received, in order: state_sync
\* replaces its view, circle_toggled sets or clears one id, config_sync sets
\* the shape and clears the set
ViewAfter(msgs, view) ==
    IF msgs = <<>> THEN view
    ELSE LET m == Head(msgs)
             next ==
                CASE m.type = "state_sync" ->
                        [layers |-> m.layers, bottomSize |-> m.bottomSize,
                         highlighted |-> Range(m.highlighted)]
                  [] m.type = "circle_toggled" ->
                        [view EXCEPT !.highlighted =
                            IF m.isHighlighted THEN @ \cup {m.circleId}
                            ELSE @ \ {m.circleId}]
                  [] m.type = "config_sync" ->
                        [layers |-> m.layers, bottomSize |-> m.bottomSize,
                         highlighted |-> {}]
                  [] OTHER -> view
         IN ViewAfter(Tail(msgs), next)

NoView == [layers |-> 0, bottomSize |-> 0, highlighted |-> {}]

\* no operation of room r is pending and no broadcast is in flight
Quiescent(r) == \A w \in Ws : room_id[w] = r => pc[w] \in {"connecting", "recv", "closed"}

\* C3 as worded: once the room is quiescent, every registered client whose
\* sends work has reconstructed exactly the room's highlight set
C3_AsClaimed ==
    \A r \in DOMAIN rooms :
        Quiescent(r) =>
            \A c \in rooms[r].clients :
                alive[c] = "open" =>
                    ViewAfter(inbox[c], NoView).highlighted = rooms[r].highlighted

\* ------------------------------------------------------------------- C4
\* C4 as worded: a handler that holds a room's lock is never inside a send
C4_AsClaimed ==
    \A r \in DOMAIN rooms :
        \A w \in Ws :
            rooms[r].lock = w => pc[w] \notin {"t_rej", "bcast"}

\* ------------------------------------------------------------------- C7
\* what a room holds apart from its registry and its lock
Content(room) == <<room.highlighted, room.layers, room.bottom_size>>

Last(q) == q[Len(q)]

\* C7: a rejected circle_toggle leaves the room's highlight set and shape as
\* they were, from the decision until the handler is back at receive_text;
\* its toggle_rejected reply (the circle id, the reason of the decision) goes
\* to the sender only and nothing is broadcast; the handler goes back to
\* receive_text with its connection as it was; and a toggle of the same circle
\* decided with no operation applied to the room since an earlier rejection of
\* it is rejected with the same reason
C7_Rejection ==
    [][\A w \in Ws :
         LET r == room_id[w] IN
         /\ (pc[w] = "t_lock" /\ pc'[w] = "t_rej") =>
               /\ Content(rooms'[r]) = Content(rooms[r])
               /\ rooms'[r].clients = rooms[r].clients
               /\ ~dec'[w].applied
               /\ dec'[w].reason.kind =
                     (IF loc[w].msg.circleId \in rooms[r].highlighted
                      THEN "Cannot deselect" ELSE "Cannot select")
               /\ \A c \in Ws \ {w} : inbox'[c] = inbox[c]
               /\ alive[w] = "open" =>
                     inbox'[w] = Append(inbox[w],
                         [type |-> "toggle_rejected", circleId |-> loc[w].msg.circleId,
                          reason |-> dec'[w].reason, op |-> loc[w].msg.op])
         /\ pc[w] = "t_rej" =>
               /\ Content(rooms'[r]) = Content(rooms[r])
               /\ pc'[w] \in {"t_rej", "recv"}
         /\ (pc[w] = "t_rej" /\ pc'[w] = "recv") =>
               /\ rooms'[r].clients = rooms[r].clients
               /\ inbox' = inbox
               /\ alive' = alive
         /\ (pc[w] = "t_lock" /\ pc'[w] # "t_lock") =>
               \A v \in Ws :
                   (/\ room_id[v] = r
                    /\ dec[v].done /\ ~dec[v].applied
                    /\ dec[v].circleId = loc[w].msg.circleId
                    /\ dec[v].epoch = hist[r].applied) =>
                        /\ pc'[w] = "t_rej"
                        /\ dec'[w].reason = dec[v].reason
    ]_vars

\* C7's case: one connection was refused the same deselect twice, with the
\* same blockers, and is back at receive_text, still registered
C7_Witness ==
    \E w \in Ws :
        /\ pc[w] = "recv"
        /\ w \in rooms[room_id[w]].clients
        /\ \E j, k \in 1..Len(inbox[w]) :
              /\ j < k
              /\ inbox[w][j].type = "toggle_rejected"
              /\ inbox[w][k].type = "toggle_rejected"
              /\ inbox[w][j].circleId = inbox[w][k].circleId
              /\ inbox[w][j].reason = inbox[w][k].reason
              /\ inbox[w][j].reason.kind = "Cannot deselect"
              /\ inbox[w][j].reason.deps # {}

\* ------------------------------------------------------------------- C8
\* C8: a DM's pyramid_config with positive integers (L, B) is taken to the
\* lock, and applying it leaves the room with layers = L, bottom_size = B and
\* no highlights whatever it held; every state_sync sent to a client of the room
\* from then until the next applied toggle or reconfiguration carries
\* layers = L, bottomSize = B and highlighted = []
C8_RoundTrip ==
    [][\A w \in Ws :
         LET r == room_id[w] IN
         /\ \A f \in Frames :
               (/\ f.kind = "pyramid_config"
                /\ f.layers >= 1 /\ f.bottomSize >= 1
                /\ session[w] = "dm"
                /\ Receive(w, f)) =>
                    /\ pc'[w] = "c_lock"
                    /\ loc'[w].msg.layers = f.layers
                    /\ loc'[w].msg.bottomSize = f.bottomSize
         /\ (pc[w] = "c_lock" /\ pc'[w] # "c_lock") =>
               /\ session[w] = "dm"
               /\ loc[w].msg.layers >= 1 /\ loc[w].msg.bottomSize >= 1
               /\ rooms'[r].layers = loc[w].msg.layers
               /\ rooms'[r].bottom_size = loc[w].msg.bottomSize
               /\ rooms'[r].highlighted = {}
               /\ hist'[r].layers = loc[w].msg.layers
               /\ hist'[r].bottomSize = loc[w].msg.bottomSize
         /\ (/\ Len(inbox'[w]) > Len(inbox[w])
             /\ Last(inbox'[w]).type = "state_sync"
             /\ hist[r].at > 0
             /\ hist[r].at = hist[r].applied) =>
                /\ Last(inbox'[w]).layers = hist[r].layers
                /\ Last(inbox'[w]).bottomSize = hist[r].bottomSize
                /\ Last(inbox'[w]).highlighted = <<>>
    ]_vars

\* C8's case: a room that held highlights was reconfigured to another shape
\* and a state_request was answered after it, before any other operation
C8_Witness ==
    \E w \in Ws :
        LET r == room_id[w] IN
        /\ r = "r1"
        /\ hist[r].at > 0 /\ hist[r].at = hist[r].applied
        /\ hist[r].layers # DefaultLayers
        /\ \E k \in 1..Len(inbox[w]) :
              /\ inbox[w][k].type = "state_sync"
              /\ inbox[w][k].op # NoOp
              /\ inbox[w][k].highlighted = <<>>
              /\ inbox[w][k].layers = hist[r].layers
              /\ inbox[w][k].bottomSize = hist[r].bottomSize

\* ------------------------------------------------------------------- C9
\* how many circle_toggled messages of operation op the box q holds
CountOp(q, op) ==
    Cardinality({k \in 1..Len(q) : q[k].type = "circle_toggled" /\ q[k].op = op})

\* while an applied toggle's broadcast runs: its message carries the frame's
\* circle id and the id's membership right after the mutation; no connection
\* holds it twice; a connection holds it only if it was registered in the
\* sender's room when the fan-out started; every such client whose turn has
\* come holds it exactly once unless its transport was gone at its turn
C9_FanOutState ==
    \A w \in Ws :
        (pc[w] = "bcast" /\ loc[w].out.type = "circle_toggled") =>
            LET l == loc[w]
                m == l.out
            IN /\ m.circleId = l.msg.circleId
               /\ m.op = l.msg.op
               /\ dec[w].applied /\ dec[w].op = m.op
               /\ m.isHighlighted = (m.circleId \in dec[w].post)
               /\ l.pending \subseteq l.snapshot
               /\ l.dead \subseteq l.snapshot \ l.pending
               /\ \A c \in l.dead : alive[c] # "open"
               /\ \A c \in Ws :
                     /\ CountOp(inbox[c], m.op) <= 1
                     /\ CountOp(inbox[c], m.op) = 1 =>
                           /\ c \in l.snapshot \ (l.pending \cup l.dead)
                           /\ room_id[c] = room_id[w]
                           /\ \E k \in 1..Len(inbox[c]) : inbox[c][k] = m
                     /\ c \in l.snapshot \ (l.pending \cup l.dead) =>
                           CountOp(inbox[c], m.op) = 1

\* the fan-out of an applied toggle goes over the clients registered in the
\* room at that moment
C9_FanOutStart ==
    \A w \in Ws :
        (pc[w] = "t_write" /\ pc'[w] = "bcast") =>
            loc'[w].snapshot = rooms[room_id[w]].clients

\* C9: the circle_toggled message of an applied toggle reaches every client
\* registered in the sender's room when the fan-out starts, the sender included,
\* once each, a failed send to one client not keeping it from the others, and
\* reaches no connection of another room (a client whose transport is gone at
\* its turn is the one that is not reached)
C9_FanOut == []C9_FanOutState /\ [][C9_FanOutStart]_vars

\* C9's case: a fan-out over two clients is complete, the send to one of them
\* failed and the sender holds the message
C9_Witness ==
    \E w \in Ws :
        /\ pc[w] = "bcast"
        /\ loc[w].out.type = "circle_toggled"
        /\ loc[w].pending = {}
        /\ Cardinality(loc[w].snapshot) = 2
        /\ loc[w].dead # {}
        /\ CountOp(inbox[w], loc[w].out.op) = 1

\* ------------------------------------------------------------------ C10
\* a room's shape is the default unless a DM's pyramid_config set it
C10_ShapeByDm ==
    \A r \in DOMAIN rooms :
        <<rooms[r].layers, rooms[r].bottom_size>> # <<DefaultLayers, DefaultBottomSize>> =>
            /\ hist[r].by \in Ws
            /\ session[hist[r].by] = "dm"
            /\ room_id[hist[r].by] = r
            /\ <<rooms[r].layers, rooms[r].bottom_size>> = <<hist[r].layers, hist[r].bottomSize>>

\* a pyramid_config frame received from a session that is not a DM's changes
\* no room, starts no broadcast, leaves the handler at receive_text and sends
\* one error to the sender alone; and every step that changes a room's shape
\* or clears its highlights by a reconfiguration is a DM's
C10_Step ==
    /\ \A w \in Ws, f \in Frames :
          (/\ f.kind = "pyramid_config"
           /\ session[w] # "dm"
           /\ Receive(w, f)) =>
               /\ rooms' = rooms
               /\ pc' = pc
               /\ loc' = loc
               /\ alive' = alive
               /\ \A c \in Ws \ {w} : inbox'[c] = inbox[c]
               /\ inbox'[w] = Append(inbox[w],
                     [type |-> "error", message |-> "Only DM can configure pyramid",
                      op |-> <<w, nmsg[w] + 1>>])
    /\ \A r \in DOMAIN rooms :
          <<rooms'[r].layers, rooms'[r].bottom_size>> # <<rooms[r].layers, rooms[r].bottom_size>> =>
              \E w \in Ws : /\ session[w] = "dm"
                            /\ room_id[w] = r
                            /\ pc[w] = "c_lock" /\ pc'[w] = "bcast"

\* C10: whatever it carries, a pyramid_config from a session whose role is not
\* DM changes no room and is answered by an error to its sender only, the
\* session staying in its loop; a shape other than the default is always the
\* one a DM's pyramid_config set
C10_NonDm == []C10_ShapeByDm /\ [][C10_Step]_vars

\* C10's case: a player's pyramid_config was refused and the player is still
\* registered and at receive_text, the room's shape untouched
C10_Witness ==
    \E w \in Ws :
        /\ session[w] = "player"
        /\ pc[w] = "recv"
        /\ w \in rooms[room_id[w]].clients
        /\ \E k \in 1..Len(inbox[w]) :
              /\ inbox[w][k].type = "error"
              /\ inbox[w][k].message = "Only DM can configure pyramid"

\* ------------------------------------------------------------------ C11
PrivateTypes == {"toggle_rejected", "error", "state_sync", "pong"}
BroadcastTypes == {"circle_toggled", "config_sync"}

\* while a handler is in the broadcast of a frame, its connection holds no
\* private reply to that frame
C11_NotBoth ==
    \A w \in Ws :
        pc[w] = "bcast" =>
            /\ loc[w].out.type \in BroadcastTypes
            /\ loc[w].out.op = loc[w].msg.op
            /\ \A k \in 1..Len(inbox[w]) :
                  inbox[w][k].op = loc[w].msg.op => inbox[w][k].type \in BroadcastTypes

\* what a handler does with a frame, step by step: the step that receives it
\* either sends one private reply to the sender and is back at receive_text,
\* or sends nothing and goes on to the lock; from the lock it either sends one
\* toggle_rejected to the sender and goes back without a broadcast, or starts
\* one broadcast without a private reply; nothing else is sent
C11_OneEffect ==
    \A w \in Ws :
        /\ \A f \in Frames :
              Receive(w, f) =>
                  \/ /\ pc'[w] = "recv"
                     /\ Len(inbox'[w]) = Len(inbox[w]) + 1
                     /\ Last(inbox'[w]).type \in PrivateTypes
                     /\ Last(inbox'[w]).op = <<w, nmsg'[w]>>
                     /\ \A c \in Ws \ {w} : inbox'[c] = inbox[c]
                  \/ /\ pc'[w] \in {"t_lock", "c_lock"}
                     /\ inbox' = inbox
        /\ (pc[w] = "t_lock" /\ pc'[w] # "t_lock") =>
              \/ /\ pc'[w] = "t_rej"
                 /\ \A c \in Ws \ {w} : inbox'[c] = inbox[c]
                 /\ alive[w] = "open" =>
                       /\ Len(inbox'[w]) = Len(inbox[w]) + 1
                       /\ Last(inbox'[w]).type = "toggle_rejected"
                       /\ Last(inbox'[w]).op = loc[w].msg.op
              \/ /\ pc'[w] = "t_write"
                 /\ inbox' = inbox
        /\ (pc[w] = "t_rej" /\ pc'[w] # "t_rej") => (pc'[w] = "recv" /\ inbox' = inbox)
        /\ (pc[w] = "t_write" /\ pc'[w] # "t_write") =>
              (pc'[w] = "bcast" /\ loc'[w].out.type = "circle_toggled")
        /\ (pc[w] = "c_lock" /\ pc'[w] # "c_lock") =>
              (pc'[w] = "bcast" /\ loc'[w].out.type = "config_sync")
        /\ (pc[w] = "bcast" /\ pc'[w] # "bcast") => (pc'[w] = "recv" /\ inbox' = inbox)

\* C11 as worded: every inbound frame an Active session handles has exactly
\* one class of outbound effect, one broadcast or one private reply to the
\* sender, never both and never neither
C11_AsClaimed == []C11_NotBoth /\ [][C11_OneEffect]_vars

\* ------------------------------------------------------------------ C12
\* the frames that are protocol errors when connection w sends them
Malformed(w, f) ==
    \/ f.kind \in {"bad_json", "non_object", "no_type", "unknown", "toggle_no_id"}
    \/ f.kind = "circle_toggle" /\ ~ParseOk(f.circleId)
    \/ f.kind = "pyramid_config" /\ (f.layers < 1 \/ f.bottomSize < 1)

\* C12 as worded: a malformed frame is answered by one error to its sender
\* alone, changes no room (shape, highlight set, client set), and leaves the
\* session at receive_text, registered as it was
C12_AsClaimed ==
    [][\A w \in Ws, f \in Frames :
          (Malformed(w, f) /\ Receive(w, f)) =>
              /\ rooms' = rooms
              /\ pc'[w] = "recv"
              /\ alive'[w] = "open"
              /\ \A c \in Ws \ {w} : inbox'[c] = inbox[c]
              /\ Len(inbox'[w]) = Len(inbox[w]) + 1
              /\ Last(inbox'[w]).type = "error"
    ]_vars

\* ------------------------------------------------------------------ C13
\* a connection without an identity is in no room's client set, has had no
\* frame processed, never runs the loop, and holds nothing but the one error
\* it was sent before the server closed it
C13_Outside ==
    \A w \in Ws :
        session[w] = "none" =>
            /\ \A r \in DOMAIN rooms : w \notin rooms[r].clients
            /\ nmsg[w] = 0
            /\ pc[w] \in {"connecting", "closed"}
            /\ inbox[w] \in {<<>>, <<[type |-> "error", message |-> "Not authenticated",
                                     op |-> NoOp]>>}
            /\ alive[w] = "closed" =>
                  (pc[w] = "closed" /\ Len(inbox[w]) = 1)
            /\ \A v \in Ws : pc[v] = "bcast" => w \notin loc[v].snapshot

\* the step that turns such a connection away creates no room and changes none
C13_TurnedAway ==
    \A w \in Ws :
        (pc[w] = "connecting" /\ pc'[w] = "closed") =>
            /\ rooms' = rooms
            /\ \A c \in Ws \ {w} : inbox'[c] = inbox[c]
            /\ alive[w] = "open" =>
                  /\ session'[w] = "none"
                  /\ alive'[w] = "closed"
                  /\ Len(inbox'[w]) = 1

\* C13: a connection whose credential resolves to no identity is sent exactly
\* one error and closed; it is never added to a room's client set, is sent no
\* state_sync and no broadcast, creates no room, changes no room, and none of
\* its inbound frames is processed
C13_Unauthenticated == []C13_Outside /\ [][C13_TurnedAway]_vars

\* C13's case: a connection opened on a room nobody else uses was turned
\* away with its one error, and that room does not exist
C13_Witness ==
    \E w \in Ws :
        /\ session[w] = "none"
        /\ alive[w] = "closed"
        /\ pc[w] = "closed"
        /\ Len(inbox[w]) = 1
        /\ room_id[w] = "r2"
        /\ "r2" \notin DOMAIN rooms
        /\ \E v \in Ws : pc[v] = "bcast"

\* ------------------------------------------------------------------ C14
\* the sessions that have entered the loop and not left it
Active(w) == pc[w] \notin {"connecting", "closed"}

\* the first message written to a registered session is its initial state_sync,
\* and a registered session whose transport is open is in the client set
C14_FirstIsSync ==
    \A w \in Ws :
        /\ (session[w] # "none" /\ pc[w] # "connecting" /\ inbox[w] # <<>>) =>
              (inbox[w][1].type = "state_sync" /\ inbox[w][1].op = NoOp)
        /\ (Active(w) /\ alive[w] = "open") =>
              (inbox[w] # <<>> /\ w \in rooms[room_id[w]].clients)

\* the registering step: the snapshot is the room as it was at that step
C14_AtJoin ==
    \A w \in Ws :
        (pc[w] = "connecting" /\ pc'[w] = "recv") =>
            LET r == room_id[w]
                before == IF r \in DOMAIN rooms THEN rooms[r] ELSE NewRoom
            IN /\ w \in rooms'[r].clients
               /\ Content(rooms'[r]) = Content(before)
               /\ inbox'[w] = <<Last(inbox'[w])>>
               /\ Last(inbox'[w]).type = "state_sync"
               /\ Range(Last(inbox'[w]).highlighted) = before.highlighted
               /\ Len(Last(inbox'[w]).highlighted) = Cardinality(before.highlighted)
               /\ \A i, j \in 1..Len(Last(inbox'[w]).highlighted) :
                      i < j => StrLess(Last(inbox'[w]).highlighted[i],
                                       Last(inbox'[w]).highlighted[j])
               /\ Last(inbox'[w]).layers = before.layers
               /\ Last(inbox'[w]).bottomSize = before.bottom_size

\* a step that applies a toggle or a reconfiguration starts its broadcast on
\* the client set of that moment, which holds every registered open session
C14_LaterBroadcast ==
    \A v \in Ws :
        (pc[v] \in {"t_write", "c_lock"} /\ pc'[v] = "bcast") =>
            /\ loc'[v].snapshot = rooms[room_id[v]].clients
            /\ \A w \in Ws :
                  (Active(w) /\ alive[w] = "open" /\ room_id[w] = room_id[v]) =>
                      w \in loc'[v].snapshot

\* C14: on entering Active a session is in its room's client set and the first
\* message it is sent is a state_sync carrying the room's shape and sorted
\* highlight list as they are at the registration; every operation applied
\* later is broadcast to a client set that contains the session
C14_JoinSnapshot ==
    []C14_FirstIsSync /\ [][C14_AtJoin /\ C14_LaterBroadcast]_vars

\* C14's case: two sessions of one room joined at different states (their
\* initial snapshots differ), and the one that joined first was sent the
\* operation applied in between
C14_Witness ==
    \E w, v \in Ws :
        /\ w # v /\ room_id[w] = room_id[v]
        /\ Active(w) /\ Active(v)
        /\ inbox[v] # <<>> /\ Len(inbox[w]) >= 2
        /\ inbox[w][1].highlighted # inbox[v][1].highlighted
        /\ inbox[w][2].type \in {"circle_toggled", "config_sync"}
        /\ inbox[w][1].highlighted # <<>>

\* ------------------------------------------------------------------ C15
\* the shape the applied reconfigurations of room r add up to
ShapeOf(r) ==
    IF hist[r].at = 0 THEN <<DefaultLayers, DefaultBottomSize>>
    ELSE <<hist[r].layers, hist[r].bottomSize>>

\* at every await the room is the state its applied operations add up to:
\* no state lies between the writes of one operation
C15_WholeStates ==
    \A r \in DOMAIN rooms :
        /\ rooms[r].highlighted = hist[r].set
        /\ <<rooms[r].layers, rooms[r].bottom_size>> = ShapeOf(r)

\* a step that sends a state_sync sends the triple of the room's state then
C15_Snapshot ==
    \A w \in Ws :
        (Len(inbox'[w]) = Len(inbox[w]) + 1 /\ Last(inbox'[w]).type = "state_sync") =>
            LET r == room_id[w]
                m == Last(inbox'[w])
            IN /\ Range(m.highlighted) = hist'[r].set
               /\ Len(m.highlighted) = Cardinality(hist'[r].set)
               /\ <<m.layers, m.bottomSize>> =
                     IF hist'[r].at = 0 THEN <<DefaultLayers, DefaultBottomSize>>
                     ELSE <<hist'[r].layers, hist'[r].bottomSize>>
               /\ hist' = hist

\* C15: every state_sync, the initial one and the reply to state_request,
\* carries the (layers, bottomSize, highlighted) of the room in one single
\* state, never a mix of the values before and after a mutation, although it
\* is read without the lock while another session may hold it
C15_NoTornRead == []C15_WholeStates /\ [][C15_Snapshot]_vars

\* C15's case: a state_request answered while another session held the lock,
\* in a room that operations have been applied to
C15_Witness ==
    \E w \in Ws :
        /\ inbox[w] # <<>>
        /\ Last(inbox[w]).type = "state_sync"
        /\ Last(inbox[w]).op # NoOp
        /\ Last(inbox[w]).locked
        /\ hist[room_id[w]].applied > 0

\* ------------------------------------------------------------------ C16
\* connection w registers in this step
Registers(w) == pc[w] = "connecting" /\ pc'[w] = "recv"

\* every session in the loop finds its room in the registry
C16_Shared ==
    \A w \in Ws : Active(w) => room_id[w] \in DOMAIN rooms

\* a room stays in the registry; a lookup of an identifier that is there
\* returns the room that is there, untouched; a room comes into being only at
\* the first lookup of its identifier, one per step, as a fresh Room
C16_InsertIfAbsent ==
    /\ \A r \in DOMAIN rooms :
          /\ r \in DOMAIN rooms'
          /\ \A w \in Ws :
                Registers(w) =>
                    rooms'[r] = [rooms[r] EXCEPT !.clients =
                                    @ \cup (IF room_id[w] = r THEN {w} ELSE {})]
    /\ \A r \in DOMAIN rooms' \ DOMAIN rooms :
          \E w \in Ws :
              /\ Registers(w)
              /\ room_id[w] = r
              /\ rooms'[r] = [NewRoom EXCEPT !.clients = {w}]
    /\ Cardinality(DOMAIN rooms' \ DOMAIN rooms) <= 1

\* C16: the registry lookup is an insert-if-absent that nothing interleaves
\* with: per identifier at most one Room is ever created, every session of
\* the identifier uses it, and a room is never replaced or removed
C16_Registry == []C16_Shared /\ [][C16_InsertIfAbsent]_vars

\* C16's case: a room created by one connection and changed by it was then
\* looked up by another, and both are its clients
C16_Witness ==
    \E w, v \in Ws :
        /\ w # v /\ room_id[w] = room_id[v]
        /\ room_id[w] \in DOMAIN rooms
        /\ {w, v} \subseteq rooms[room_id[w]].clients
        /\ inbox[v] # <<>> /\ inbox[v][1].type = "state_sync"
        /\ inbox[v][1].highlighted # <<>>

\* ------------------------------------------------------------------ C17
\* the lock is held exactly by a handler between its decision and the end of
\* its critical section, and the room is then as that handler found it
C17_LockHolder ==
    /\ \A r \in DOMAIN rooms :
          rooms[r].lock # 0 =>
              /\ rooms[r].lock \in Ws
              /\ room_id[rooms[r].lock] = r
              /\ pc[rooms[r].lock] \in {"t_rej", "t_write"}
              /\ rooms[r].highlighted = dec[rooms[r].lock].pre
              /\ <<rooms[r].layers, rooms[r].bottom_size>> = dec[rooms[r].lock].shape
    /\ \A w \in Ws :
          pc[w] \in {"t_rej", "t_write"} => rooms[room_id[w]].lock = w

\* frame k of session w has been dealt with: the handler is back at the
\* receive, and the reply or broadcast was written to w if w is still there
Completed(w, k) ==
    /\ pc[w] = "recv"
    /\ nmsg[w] >= k
    /\ alive[w] = "open" => \E i \in 1..Len(inbox[w]) : inbox[w][i].op = <<w, k>>

\* a handler holding the lock lets it go
C17_Released ==
    \A w \in Ws : (pc[w] \in {"t_rej", "t_write"}) ~> (pc[w] \notin {"t_rej", "t_write"})

\* a toggle or a reconfiguration that has reached the lock completes
C17_Completes ==
    \A w \in Ws :
        (pc[w] \in {"t_lock", "c_lock"}) ~> Completed(w, nmsg[w])

\* C17: whatever a client's connection does (goes away while its handler waits
\* for the lock, holds it, or is being sent a reply or a broadcast), the lock
\* is released again and every circle_toggle and pyramid_config that a session
\* has started completes with its broadcast or private reply; while the lock
\* is held the room is in the state the holder found
C17_NoBlocking == []C17_LockHolder /\ C17_Released /\ C17_Completes

\* C17's case: a client went away while its handler holds the lock for a
\* rejection, and another session is waiting for that lock
C17_Witness ==
    \E w, v \in Ws :
        /\ w # v /\ room_id[w] = room_id[v]
        /\ alive[w] = "dropped"
        /\ pc[w] = "t_rej"
        /\ pc[v] \in {"t_lock", "c_lock"}

\* ------------------------------------------------------------------ C18
\* connection c is in some room's client set
Registered(c) == \E r \in DOMAIN rooms : c \in rooms[r].clients

\* a session that has closed is in no client set
C18_ClosedIsOut == \A c \in Ws : pc[c] = "closed" => ~Registered(c)

\* a connection enters a client set only by registering, which it does once;
\* a broadcast that returns takes out of the set exactly the clients its sends
\* failed for; while it runs, a send changes nothing but the inbox of the
\* client it was for, failed or not, and the sender goes on
C18_Removal ==
    /\ \A c \in Ws :
          /\ (~Registered(c) /\ Registered(c)') => Registers(c)
          /\ pc[c] # "connecting" => pc'[c] # "connecting"
          /\ (pc[c] # "closed" /\ pc'[c] = "closed" /\ room_id[c] \in DOMAIN rooms) =>
                rooms' = [rooms EXCEPT ![room_id[c]].clients = @ \ {c}]
    /\ \A w \in Ws :
          /\ (pc[w] = "bcast" /\ pc'[w] = "recv") =>
                /\ rooms'[room_id[w]].clients = rooms[room_id[w]].clients \ loc[w].dead
                /\ \A c \in loc[w].dead : alive[c] # "open"
                /\ \A c \in loc[w].snapshot \ loc[w].dead :
                      \E i \in 1..Len(inbox[c]) : inbox[c][i] = loc[w].out
                /\ inbox' = inbox
          /\ (pc[w] = "bcast" /\ loc'[w] # loc[w] /\ pc'[w] = "bcast") =>
                /\ rooms' = rooms /\ alive' = alive
                /\ \E c \in loc[w].pending :
                      /\ loc'[w].pending = loc[w].pending \ {c}
                      /\ \A v \in Ws \ {c} : inbox'[v] = inbox[v]
                      /\ IF alive[c] = "open"
                         THEN inbox'[c] = Append(inbox[c], loc[w].out)
                              /\ loc'[w].dead = loc[w].dead
                         ELSE inbox'[c] = inbox[c]
                              /\ loc'[w].dead = loc[w].dead \cup {c}

\* a connection whose transport is gone gets out of the client set
C18_GetsOut ==
    \A c \in Ws : (alive[c] # "open") ~> ~Registered(c)

\* C18: a session that closes is removed from its room's client set and is
\* never added again; after a transport disconnect the session is eventually
\* absent from it; a broadcast that returns has removed the clients its sends
\* failed for and no client its send succeeded for; removing a client that is
\* already out changes nothing; a failed send is reported to nobody
C18_Deregistration == []C18_ClosedIsOut /\ [][C18_Removal]_vars /\ C18_GetsOut

\* C18's case: a broadcast pruned a client whose transport was gone and whose
\* handler has not closed yet, and the other client it sent to is still in
\* the set
C18_Witness ==
    \E c, v \in Ws :
        /\ c # v /\ room_id[c] = room_id[v]
        /\ alive[c] = "dropped" /\ Active(c)
        /\ ~Registered(c)
        /\ v \in rooms[room_id[v]].clients
        /\ inbox[v] # <<>> /\ Last(inbox[v]).type \in {"circle_toggled", "config_sync"}

\* ------------------------------------------------------------------ C19
\* member h of room's set rests on a highlighted cell of the layer below that
\* the shape has (layer M being bottom_size + M wide)
Rests(room, h) ==
    \E p \in BelowOf(ParseId(h)[1], ParseId(h)[2]) :
        /\ ShapeValid(room.bottom_size, p[1], p[2])
        /\ FormatId(p[1], p[2]) \in room.highlighted

\* C19: in every reachable state, after any toggles and reconfigurations by
\* any clients, every highlighted cell above layer 0 has an adjacency-below
\* cell of the current shape that is highlighted too: applied deselects and
\* reconfigurations keep the support that every select had when it was applied
C19_Support ==
    \A r \in DOMAIN rooms :
        \A h \in rooms[r].highlighted :
            ParseId(h)[1] > 0 => Rests(rooms[r], h)

\* C19's case: a deselect was applied to a set that keeps a cell above layer
\* 0, which rested on the deselected cell and on another one
C19_Witness ==
    \E w \in Ws :
        /\ dec[w].done /\ dec[w].applied
        /\ dec[w].circleId \in dec[w].pre
        /\ room_id[w] \in DOMAIN rooms
        /\ rooms[room_id[w]].highlighted = dec[w].post
        /\ \E h \in dec[w].post :
              /\ ParseId(h)[1] > 0
              /\ ParseId(dec[w].circleId) \in BelowOf(ParseId(h)[1], ParseId(h)[2])

\* ------------------------------------------------------------------ C20
\* the cell (layer, index) is a cell of a pyramid of that shape
InShape(layers, bottom_size, layer, index) ==
    /\ 0 <= layer /\ layer < layers
    /\ ShapeValid(bottom_size, layer, index)

\* C20 as worded: in every reachable state every member of the highlight set
\* is a cell of the current shape: its layer is less than the number of
\* layers and its index is in the range of its layer (below bottomSize on
\* layer 0); a toggle naming a cell outside the shape is never applied
C20_AsClaimed ==
    \A r \in DOMAIN rooms :
        \A h \in rooms[r].highlighted :
            InShape(rooms[r].layers, rooms[r].bottom_size, ParseId(h)[1], ParseId(h)[2])
====
